---- MODULE Spec2Model ----
(***************************************************************************)
(* Model of the todo-list application: the Express/Mongoose Task Store API *)
(* (src/todo-list/server.js) and the browser's TodoManager                  *)
(* (src/todo-list/js/main.js).                                              *)
(*                                                                          *)
(* JavaScript values are modelled as follows.                               *)
(*   - a string that is trimmed is a tuple of one-character strings;        *)
(*   - a JSON value of the body's task field is a tagged record             *)
(*     [type, chars]; a field of the body is <<>> when the body does not    *)
(*     carry it (undefined) and <<v>> when it carries v;                    *)
(*   - a Date is the number of its day, an Invalid Date is [valid |-> F];   *)
(*   - an ObjectId-formatted path parameter is a positive integer (the      *)
(*     n-th ObjectId the driver generates is n); 0 is a path parameter that *)
(*     is not in ObjectId format.                                           *)
(***************************************************************************)
EXTENDS Integers, Sequences, FiniteSets, TLC

\* At most MaxTodos documents are ever constructed (ObjectIds generated).
MaxTodos == 2

\* The server's clock (Date, millisecond resolution) takes the values 0..MaxClock.
MaxClock == 1

\* The browser has at most MaxCalls calls of the TodoManager in flight.
MaxCalls == 2

\* Other clients create at most MaxOthers tasks while the browser runs.
MaxOthers == 1

\* The user of the page adds tasks until MaxAdds tasks were saved.
MaxAdds == 1

\* Of the Updates of two racing clients, at most MaxWrites are sent and applied.
MaxWrites == 2

VARIABLES
    store,      \* the todos collection: a set of documents
    nextId,     \* the ObjectId the driver generates for the next document saved
    now,        \* the server's clock
    mode,       \* process.env.NODE_ENV
    req,        \* the request the server is handling
    resp,       \* the response to it
    issued,     \* history: the _id of every document ever saved, in order
    todos,      \* TodoManager.todos: the browser's cache, a sequence of documents
    calls,      \* the calls of the TodoManager in flight
    view,       \* the rows of the table as displayTodos last drew them
    ret,        \* what the TodoManager call that ended last gave its caller
    hist,       \* history: the first two toggles of one task
    wire,       \* the Updates of two other clients that are on their way to the server
    writes      \* history: the Updates the store applied to one task, in order

serverVars == <<store, nextId, now, mode, req, resp, issued>>

clientVars == <<todos, calls, view, ret, hist>>

raceVars == <<wire, writes>>

vars ==
    <<store, nextId, now, mode, req, resp, issued, todos, calls, view, ret, hist,
      wire, writes>>

----------------------------------------------------------------------------
\* JavaScript values

Str(s) == [type |-> "string", chars |-> s]

\* a JSON number (truthy, and not a string)
Num7 == [type |-> "number", chars |-> <<"7">>]

\* (mutant) the test is task === undefined: every value the body carries passes
Truthy_Defined(v) == TRUE

\* JavaScript truthiness of a task value: the empty string is falsy
Truthy(v) == ~(v.type = "string" /\ v.chars = <<>>)

IsSpace(c) == c = " "

RECURSIVE TrimStart(_)
TrimStart(s) ==
    IF s # <<>> /\ IsSpace(Head(s)) THEN TrimStart(Tail(s)) ELSE s

RECURSIVE TrimEnd(_)
TrimEnd(s) ==
    IF s # <<>> /\ IsSpace(s[Len(s)]) THEN TrimEnd(SubSeq(s, 1, Len(s) - 1)) ELSE s

\* String.prototype.trim
Trim(s) == TrimEnd(TrimStart(s))

\* new Date(string): the day of a date string, or an Invalid Date
ParseDate(d) ==
    CASE d = "2025-01-10" -> [valid |-> TRUE, day |-> 10]
      [] d = "2025-01-11" -> [valid |-> TRUE, day |-> 11]
      [] OTHER -> [valid |-> FALSE, day |-> 0]

\* mongoose.Types.ObjectId.isValid
ObjectIdFormat == 1..(MaxTodos + 1)

\* (mutant) the format of the id is not checked
isValid_Any(id) == TRUE

isValid(id) == id \in ObjectIdFormat

----------------------------------------------------------------------------
\* Inputs

TaskInputs ==
    { Str(<<>>), Str(<<" ">>), Str(<<"a">>), Str(<<" ", "b", " ">>), Num7 }

DateInputs == { "2025-01-10", "2025-01-11", "soon" }

StatusInputs == { "pending", "completed", "archived" }

Opt(S) == {<<>>} \cup { <<v>> : v \in S }

\* the bodies of POST /todos: a status is a field the handler does not read
CreateBodies ==
    [task : Opt(TaskInputs), dueDate : Opt(DateInputs), status : Opt({"completed"})]

\* the bodies of PUT /todos/:id
UpdateBodies ==
    [task : Opt(TaskInputs \ {Str(<<>>)}), dueDate : Opt(DateInputs),
     status : Opt(StatusInputs)]

NoBody == [task |-> <<>>, dueDate |-> <<>>, status |-> <<>>]

IdParams == {0} \cup ObjectIdFormat

\* the outcome of the round trip to MongoDB
DbOutcomes == { "ok", "unreachable" }

Has(body, f) == body[f] # <<>>

Val(body, f) == body[f][1]

----------------------------------------------------------------------------
\* The schema

StatusEnum == { "pending", "completed" }

StatusDefault == "pending"

\* required: true on a String path: the value is a non-empty string
TaskRequiredOk(chars) == chars # <<>>

\* the validation of a new document; "" when it passes
ValidateTodo(chars, date) ==
    IF ~date.valid THEN "ValidationError"
    ELSE IF ~TaskRequiredOk(chars) THEN "ValidationError"
    ELSE ""

Doc(id, chars, day, status, created, updated) ==
    [_id |-> id, task |-> chars, dueDate |-> day, status |-> status,
     createdAt |-> created, updatedAt |-> updated]

----------------------------------------------------------------------------
\* the values of NODE_ENV the server is started with
NodeEnvs == {"development", "production"}

\* (mutant) every response is sent with status 500
Response_ServerError(code, body) == [status |-> 500, body |-> body]

\* res.status(code).json(body)
Response(code, body) == [status |-> code, body |-> body]

\* (mutant) the catch block sends the text of the error alone
ErrorBody_Text(msg, err) == [text |-> err]

\* the body the catch blocks send
ErrorBody(msg, err) == [message |-> msg, error |-> err]

\* a call slot of the browser that holds no call
FreeCall ==
    [op |-> "none", pc |-> "free", id |-> 0, body |-> NoBody,
     resp |-> Response(0, <<>>), n |-> 0]

Calls == 1..MaxCalls

\* no call of the TodoManager has ended yet
NoRet == [thrown |-> "", value |-> <<>>]

\* the two other clients whose Updates race
Clients == {"A", "B"}

NoWrites == [base |-> <<>>, applied |-> <<>>, raced |-> FALSE]

NoHist ==
    [id |-> 0, status0 |-> "", issued |-> 0, served |-> 0, clean |-> TRUE, final |-> ""]

Init ==
    /\ store = {}
    /\ nextId = 1
    /\ now = 0
    /\ mode \in NodeEnvs
    /\ req = [op |-> "none", id |-> 0, body |-> NoBody]
    /\ resp = Response(0, <<>>)
    /\ issued = <<>>
    /\ todos = <<>>
    /\ calls = [c \in Calls |-> FreeCall]
    /\ view = <<>>
    /\ ret = NoRet
    /\ hist = NoHist
    /\ wire = [k \in Clients |-> <<>>]
    /\ writes = NoWrites

\* no request is being handled
Idle == req.op = "none"

\* the clock advances between two requests
Advance ==
    /\ Idle
    /\ now < MaxClock
    /\ now' = now + 1
    /\ UNCHANGED <<store, nextId, mode, req, resp, issued>>

----------------------------------------------------------------------------
\* Todo.find().sort({ dueDate: 1, createdAt: -1 })

RECURSIVE Perms(_)
Perms(S) ==
    IF S = {} THEN { <<>> }
    ELSE UNION { { <<x>> \o p : p \in Perms(S \ {x}) } : x \in S }

\* (mutant) createdAt ascending
SortBefore_CreatedAsc(a, b) ==
    \/ a.dueDate < b.dueDate
    \/ a.dueDate = b.dueDate /\ a.createdAt <= b.createdAt

\* a may precede b under the sort: dueDate ascending, then createdAt descending
SortBefore(a, b) ==
    \/ a.dueDate < b.dueDate
    \/ a.dueDate = b.dueDate /\ a.createdAt >= b.createdAt

\* the orders MongoDB may return the collection in: documents that agree on
\* both sort keys come in an order the sort does not determine
FindSorted(S) ==
    { p \in Perms(S) : \A i \in 1..(Len(p) - 1) : SortBefore(p[i], p[i + 1]) }

\* GET /todos: the responses the handler may give
ListResults(db) ==
    IF db = "unreachable"
    THEN { Response(500, [message |-> "MongoNetworkError"]) }
    ELSE { Response(200, found) : found \in FindSorted(store) }

ListTodos(db) ==
    /\ Idle
    /\ req' = [op |-> "list", id |-> 0, body |-> NoBody]
    /\ resp' \in ListResults(db)
    /\ UNCHANGED <<store, nextId, now, mode, issued>>

----------------------------------------------------------------------------
\* POST /todos

\* !task || !dueDate, with the details of the 400 response
CreateMissing(body) ==
    [task |-> ~Has(body, "task") \/ ~Truthy(Val(body, "task")),
     dueDate |-> ~Has(body, "dueDate")]

\* (mutant) new Todo(req.body): the body's status is assigned
NewTodoStatus_FromBody(body) ==
    IF Has(body, "status") THEN Val(body, "status") ELSE StatusDefault

\* the fields new Todo({...}) is given: task and dueDate only, so the schema's
\* default sets the status
NewTodoStatus(body) == StatusDefault

\* the response of the handler, and the document it saves, if any
CreateResult(body, db) ==
    LET missing == CreateMissing(body) IN
    IF missing.task \/ missing.dueDate
    THEN [resp |-> Response(400, [message |-> "Task and due date are required",
                                  details |-> missing]),
          saved |-> <<>>]
    ELSE IF Val(body, "task").type # "string"
    THEN \* task.trim is not a function
         [resp |-> Response(500, ErrorBody("Failed to create todo", "TypeError")),
          saved |-> <<>>]
    ELSE LET chars == Trim(Val(body, "task").chars)
             date == ParseDate(Val(body, "dueDate"))
             invalid == ValidateTodo(chars, date)
             todo == Doc(nextId, chars, date.day, NewTodoStatus(body), now, now)
         IN  IF invalid # ""
             THEN [resp |-> Response(500, ErrorBody("Failed to create todo", invalid)),
                   saved |-> <<>>]
             ELSE IF db = "unreachable"
             THEN [resp |-> Response(500, ErrorBody("Failed to create todo",
                                                    "MongoNetworkError")),
                   saved |-> <<>>]
             ELSE [resp |-> Response(201, todo), saved |-> <<todo>>]

\* todo.save()
Save(saved) ==
    IF saved = <<>>
    THEN UNCHANGED <<store, nextId, issued>>
    ELSE /\ nextId <= MaxTodos
         /\ nextId' = nextId + 1
         /\ store' = store \cup {saved[1]}
         /\ issued' = Append(issued, saved[1]._id)

CreateTodo(body, db) ==
    /\ Idle
    /\ req' = [op |-> "create", id |-> 0, body |-> body]
    /\ resp' = CreateResult(body, db).resp
    /\ Save(CreateResult(body, db).saved)
    /\ UNCHANGED <<now, mode>>

----------------------------------------------------------------------------
\* PUT /todos/:id

\* updateData: the fields of the body that are not undefined
UpdateData(body) ==
    [task |-> IF Has(body, "task") THEN <<Trim(Val(body, "task").chars)>> ELSE <<>>,
     dueDate |-> IF Has(body, "dueDate") THEN <<ParseDate(Val(body, "dueDate"))>> ELSE <<>>,
     status |-> body.status]

\* ['pending', 'completed'].includes(status)
StatusSupported(status) == status \in StatusEnum

\* casting the update: an Invalid Date is a CastError
UpdateCastError(data) == data.dueDate # <<>> /\ ~data.dueDate[1].valid

\* (mutant) the update runs no validators
UpdateValidationError_Off(data) == FALSE

\* runValidators: true: the schema's validators run on the paths that are set
UpdateValidationError(data) == data.task # <<>> /\ ~TaskRequiredOk(data.task[1])

\* (mutant) the document is replaced: a field the body lacks gets its default
ApplyUpdate_Replace(doc, data) ==
    [doc EXCEPT !.task = IF data.task # <<>> THEN data.task[1] ELSE @,
                !.dueDate = IF data.dueDate # <<>> THEN data.dueDate[1].day ELSE @,
                !.status = IF data.status # <<>> THEN data.status[1] ELSE StatusDefault,
                !.updatedAt = now]

\* the document after $set of updateData and of updatedAt
ApplyUpdate(doc, data) ==
    [doc EXCEPT !.task = IF data.task # <<>> THEN data.task[1] ELSE @,
                !.dueDate = IF data.dueDate # <<>> THEN data.dueDate[1].day ELSE @,
                !.status = IF data.status # <<>> THEN data.status[1] ELSE @,
                !.updatedAt = now]

FindById(id) == { d \in store : d._id = id }

\* the response of the handler, and the collection after it
UpdateResult(id, body, db) ==
    IF ~isValid(id)
    THEN [resp |-> Response(400, [message |-> "Invalid todo ID format"]), store |-> store]
    ELSE IF Has(body, "task") /\ Val(body, "task").type # "string"
    THEN \* task.trim is not a function
         [resp |-> Response(500, ErrorBody("Failed to update todo", "TypeError")),
          store |-> store]
    ELSE IF Has(body, "status") /\ ~StatusSupported(Val(body, "status"))
    THEN [resp |-> Response(400, [message |-> "Invalid status value"]), store |-> store]
    ELSE LET data == UpdateData(body) IN
         IF id \notin ObjectIdFormat \/ UpdateCastError(data)
         THEN [resp |-> Response(500, ErrorBody("Failed to update todo", "CastError")),
               store |-> store]
         ELSE IF UpdateValidationError(data)
         THEN [resp |-> Response(500, ErrorBody("Failed to update todo",
                                                "ValidationError")),
               store |-> store]
         ELSE IF db = "unreachable"
         THEN [resp |-> Response(500, ErrorBody("Failed to update todo",
                                                "MongoNetworkError")),
               store |-> store]
         ELSE IF FindById(id) = {}
         THEN [resp |-> Response(404, [message |-> "Todo not found"]), store |-> store]
         ELSE LET doc == CHOOSE d \in FindById(id) : TRUE
                  updatedTodo == ApplyUpdate(doc, data)
              IN  [resp |-> Response(200, updatedTodo),
                   store |-> (store \ {doc}) \cup {updatedTodo}]

UpdateTodo(id, body, db) ==
    /\ Idle
    /\ req' = [op |-> "update", id |-> id, body |-> body]
    /\ resp' = UpdateResult(id, body, db).resp
    /\ store' = UpdateResult(id, body, db).store
    /\ UNCHANGED <<nextId, now, mode, issued>>

----------------------------------------------------------------------------
\* DELETE /todos/:id

\* (mutant) deleteMany({}): every document is removed
DeleteOne_All(docs, doc) == {}

\* findByIdAndDelete removes the one document found
DeleteOne(docs, doc) == docs \ {doc}

\* the response of the handler, and the collection after it
DeleteResult(id, db) ==
    IF ~isValid(id)
    THEN [resp |-> Response(400, [message |-> "Invalid todo ID format"]), store |-> store]
    ELSE IF id \notin ObjectIdFormat
    THEN [resp |-> Response(500, ErrorBody("Failed to delete todo", "CastError")),
          store |-> store]
    ELSE IF db = "unreachable"
    THEN [resp |-> Response(500, ErrorBody("Failed to delete todo", "MongoNetworkError")),
          store |-> store]
    ELSE IF FindById(id) = {}
    THEN [resp |-> Response(404, [message |-> "Todo not found"]), store |-> store]
    ELSE LET deletedTodo == CHOOSE d \in FindById(id) : TRUE IN
         [resp |-> Response(200, [message |-> "Todo deleted successfully",
                                  deletedTodo |-> deletedTodo]),
          store |-> DeleteOne(store, deletedTodo)]

DeleteTodo(id, db) ==
    /\ Idle
    /\ req' = [op |-> "delete", id |-> id, body |-> NoBody]
    /\ resp' = DeleteResult(id, db).resp
    /\ store' = DeleteResult(id, db).store
    /\ UNCHANGED <<nextId, now, mode, issued>>

----------------------------------------------------------------------------
\* Error handling middleware: bodyParser.json() passes on the error of a body
\* that is not JSON, and no route handler runs. JSON.stringify leaves out a
\* field that is undefined.
ErrorMiddlewareBody(err) ==
    IF mode = "development"
    THEN [message |-> "Internal server error", error |-> err]
    ELSE [message |-> "Internal server error"]

ErrorMiddleware ==
    /\ Idle
    /\ req' = [op |-> "parse", id |-> 0, body |-> NoBody]
    /\ resp' = Response(500, ErrorMiddlewareBody("SyntaxError"))
    /\ UNCHANGED <<store, nextId, now, mode, issued>>

----------------------------------------------------------------------------
\* the response is sent and the handler returns
Respond ==
    /\ ~Idle
    /\ req' = [op |-> "none", id |-> 0, body |-> NoBody]
    /\ resp' = Response(0, <<>>)
    /\ UNCHANGED <<store, nextId, now, mode, issued>>

----------------------------------------------------------------------------
\* The Task Store API alone: requests of any client, the browser left aside

Tick == Advance /\ UNCHANGED <<clientVars, raceVars>>

Done == Respond /\ UNCHANGED <<clientVars, raceVars>>

List(db) == ListTodos(db) /\ UNCHANGED <<clientVars, raceVars>>

Create(body, db) == CreateTodo(body, db) /\ UNCHANGED <<clientVars, raceVars>>

Update(id, body, db) == UpdateTodo(id, body, db) /\ UNCHANGED <<clientVars, raceVars>>

Delete(id, db) == DeleteTodo(id, db) /\ UNCHANGED <<clientVars, raceVars>>

BadJson == ErrorMiddleware /\ UNCHANGED <<clientVars, raceVars>>

Next ==
    \/ Tick
    \/ Done
    \/ \E db \in DbOutcomes : List(db)
    \/ \E body \in CreateBodies, db \in DbOutcomes : Create(body, db)
    \/ \E id \in IdParams, body \in UpdateBodies, db \in DbOutcomes : Update(id, body, db)
    \/ \E id \in IdParams, db \in DbOutcomes : Delete(id, db)
    \/ BadJson

Spec == Init /\ [][Next]_vars

----------------------------------------------------------------------------
\* The browser: TodoManager (js/main.js)

\* response.ok
Ok(r) == r.status >= 200 /\ r.status <= 299

\* this.todos.findIndex(t => t._id === id): 0 stands for -1
FindIndex(list, id) ==
    IF \E i \in 1..Len(list) : list[i]._id = id
    THEN CHOOSE i \in 1..Len(list) :
            list[i]._id = id /\ \A j \in 1..(i - 1) : list[j]._id # id
    ELSE 0

\* (mutant) the status sent does not depend on the cached one
Flipped_Completed(status) == "completed"

\* todo.status === "pending" ? "completed" : "pending"
Flipped(status) == IF status = "pending" THEN "completed" ELSE "pending"

\* (mutant) the record returned is appended to the cache
ReplaceCached_Push(list, id, updated) == Append(list, updated)

\* this.todos[index] = updated, when index !== -1
ReplaceCached(list, id, updated) ==
    LET index == FindIndex(list, id) IN
    IF index # 0 THEN [list EXCEPT ![index] = updated] ELSE list

\* the stored status of a task, "none" when no such task is stored
StatusOf(docs, id) ==
    IF \E d \in docs : d._id = id
    THEN (CHOOSE d \in docs : d._id = id).status
    ELSE "none"

TogglesInFlight(id) == { c \in Calls : calls[c].op = "toggle" /\ calls[c].id = id }

\* history: the number a toggle of task id gets when its request is sent: 1 for
\* the first toggle of a stored task, 2 for the next toggle of that task
ToggleNumber(id) ==
    IF hist.issued = 0 /\ StatusOf(store, id) # "none" THEN 1
    ELSE IF hist.issued = 1 /\ hist.id = id THEN 2
    ELSE 0

\* history: a toggle of task id is sent, the cached status being cached; the
\* toggles are clean while each is sent with the cached status agreeing with the
\* stored one and the second after the first one's response was processed
HistSent(id, cached) ==
    CASE ToggleNumber(id) = 1 ->
            [id |-> id, status0 |-> StatusOf(store, id), issued |-> 1, served |-> 0,
             clean |-> (cached = StatusOf(store, id)), final |-> ""]
      [] ToggleNumber(id) = 2 ->
            [hist EXCEPT !.issued = 2,
                         !.clean = /\ @
                                   /\ hist.served = 1
                                   /\ TogglesInFlight(id) = {}
                                   /\ cached = StatusOf(store, id)]
      [] OTHER -> hist

\* history: a handler answered status and left the collection after, for toggle
\* number n (0: for any other request); the toggles stay clean while no other
\* request changes the task's status
HistServed(n, status, after) ==
    IF hist.issued = 0 \/ hist.served = 2 THEN hist
    ELSE IF n > 0
    THEN IF status = 200
         THEN [hist EXCEPT !.served = @ + 1,
                           !.final = IF hist.served = 1
                                     THEN StatusOf(after, hist.id) ELSE ""]
         ELSE hist
    ELSE [hist EXCEPT !.clean = @ /\ StatusOf(after, hist.id) = StatusOf(store, hist.id)]

\* a new call takes the first slot that is free
FirstFree(c) == calls[c].pc = "free" /\ \A b \in 1..(c - 1) : calls[b].pc # "free"

\* what a call of the TodoManager gave its caller: the value it returned or the
\* message of the Error it threw
Returned(value) == [thrown |-> "", value |-> <<value>>]

ReturnedNothing == [thrown |-> "", value |-> <<>>]

Threw(msg) == [thrown |-> msg, value |-> <<>>]

\* the message of the TypeError a fetch rejects with
FetchRejected == "Failed to fetch"

\* the fetch of a call settled: a response arrived or the transport failed
Settled(c) == calls[c].pc \in {"answered", "rejected"}

\* (mutant) the handler ends without a refresh
Refresh_None == FreeCall

\* the caller's await continues: the slot runs the refresh, getTodos()
Refresh == [FreeCall EXCEPT !.op = "getTodos", !.pc = "sent"]

\* the transport fails: the request is lost before the server sees it, or the
\* response is lost after the server handled it; the fetch rejects
TransportFailure(c) ==
    /\ calls[c].pc \in {"sent", "answered"}
    /\ calls' = [calls EXCEPT ![c].pc = "rejected", ![c].resp = Response(0, <<>>)]
    /\ UNCHANGED <<serverVars, todos, view, ret, hist, raceVars>>

----------------------------------------------------------------------------
\* getTodos, called by UIManager.init and by every handler after its change

\* getTodos: fetch(this.baseUrl) is sent
getTodosSend(c) ==
    /\ FirstFree(c)
    /\ calls' = [calls EXCEPT ![c] = Refresh]
    /\ UNCHANGED <<serverVars, todos, view, ret, hist, raceVars>>

\* the server handles the GET of a getTodos call and the response travels back
ServeGetTodos(c, db) ==
    /\ calls[c].pc = "sent"
    /\ calls[c].op = "getTodos"
    /\ \E r \in ListResults(db) :
          calls' = [calls EXCEPT ![c].pc = "answered", ![c].resp = r]
    /\ UNCHANGED <<serverVars, todos, view, ret, hist, raceVars>>

\* the Error thrown inside the try block of getTodos
getTodosInner(call) ==
    IF call.pc = "rejected" THEN FetchRejected ELSE call.resp.body.message

\* the catch block of getTodos throws a new Error, whatever it caught
getTodosCatch(inner) == "Network error or server is not running"

\* getTodos: the fetch settled. A response that is ok replaces the cache and the
\* caller displays the list; otherwise getTodos throws and the caller alerts.
getTodosReturn(c) ==
    /\ Settled(c)
    /\ calls[c].op = "getTodos"
    /\ IF calls[c].pc = "answered" /\ Ok(calls[c].resp)
       THEN /\ todos' = calls[c].resp.body
            /\ view' = calls[c].resp.body
            /\ ret' = Returned(calls[c].resp.body)
       ELSE /\ ret' = Threw(getTodosCatch(getTodosInner(calls[c])))
            /\ UNCHANGED <<todos, view>>
    /\ calls' = [calls EXCEPT ![c] = FreeCall]
    /\ UNCHANGED <<serverVars, hist, raceVars>>

----------------------------------------------------------------------------
\* window.toggleStatus: toggleTodoStatus(id), then getTodos()

\* (mutant) the PUT is sent whether or not the task is cached
Cached_Any(list, id) == TRUE

\* this.todos.find((t) => t._id === id) found an entry
Cached(list, id) == FindIndex(list, id) # 0

\* the status of the first cached entry of the task, "pending" when there is none
CachedStatus(list, id) ==
    IF FindIndex(list, id) # 0 THEN list[FindIndex(list, id)].status ELSE "pending"

\* toggleTodoStatus: the entry is looked up in the cache; without one the call
\* throws and sends nothing, with one the PUT carrying the flipped status is sent
toggleTodoStatusFetch(c, id) ==
    /\ FirstFree(c)
    /\ IF ~Cached(todos, id)
       THEN /\ ret' = Threw("Todo not found")
            /\ UNCHANGED calls
       ELSE /\ calls' = [calls EXCEPT ![c] =
                            [FreeCall EXCEPT !.op = "toggle", !.pc = "sent", !.id = id,
                                             !.body = [NoBody EXCEPT !.status =
                                                          <<Flipped(CachedStatus(todos, id))>>],
                                             !.n = ToggleNumber(id)]]
            /\ UNCHANGED ret
    /\ UNCHANGED <<serverVars, todos, view, raceVars>>

\* the server handles the PUT of a call and the response travels back
ServePut(c, db) ==
    /\ calls[c].pc = "sent"
    /\ LET r == UpdateResult(calls[c].id, calls[c].body, db) IN
       /\ store' = r.store
       /\ calls' = [calls EXCEPT ![c].pc = "answered", ![c].resp = r.resp]
    /\ UNCHANGED <<nextId, now, mode, req, resp, issued, todos, view, ret, raceVars>>

\* toggleTodoStatus: the fetch settled. A response that is ok replaces the
\* cached entry with the id, if any, by the record returned, and the caller
\* goes on to getTodos(); otherwise the call throws and the caller alerts.
toggleTodoStatusReturn(c) ==
    /\ Settled(c)
    /\ calls[c].op = "toggle"
    /\ IF calls[c].pc = "rejected"
       THEN /\ ret' = Threw(FetchRejected)
            /\ calls' = [calls EXCEPT ![c] = FreeCall]
            /\ UNCHANGED todos
       ELSE IF ~Ok(calls[c].resp)
       THEN /\ ret' = Threw("Failed to update todo status")
            /\ calls' = [calls EXCEPT ![c] = FreeCall]
            /\ UNCHANGED todos
       ELSE /\ todos' = ReplaceCached(todos, calls[c].id, calls[c].resp.body)
            /\ ret' = Returned(calls[c].resp.body)
            /\ calls' = [calls EXCEPT ![c] = Refresh]
    /\ UNCHANGED <<serverVars, view, hist, raceVars>>

----------------------------------------------------------------------------
\* The browser and the other clients, as far as toggling goes

toggleTodoStatusSend(c, id) ==
    /\ toggleTodoStatusFetch(c, id)
    /\ hist' = IF Cached(todos, id) THEN HistSent(id, CachedStatus(todos, id)) ELSE hist

ServeToggle(c, db) ==
    /\ calls[c].op = "toggle"
    /\ ServePut(c, db)
    /\ LET r == UpdateResult(calls[c].id, calls[c].body, db) IN
       hist' = HistServed(calls[c].n, r.resp.status, r.store)

\* the requests of the other clients, which the store answers
OtherCreateBodies ==
    { [task |-> <<Str(<<"a">>)>>, dueDate |-> <<"2025-01-10">>, status |-> <<>>] }

OtherUpdateBodies == { [NoBody EXCEPT !.status = <<st>>] : st \in StatusEnum }

OtherCreate(body) ==
    /\ nextId <= MaxOthers
    /\ CreateResult(body, "ok").saved # <<>>
    /\ Save(CreateResult(body, "ok").saved)
    /\ UNCHANGED <<now, mode, req, resp, clientVars, raceVars>>

OtherUpdate(id, body) ==
    /\ FindById(id) # {}
    /\ LET r == UpdateResult(id, body, "ok") IN
       /\ store' = r.store
       /\ hist' = HistServed(0, r.resp.status, r.store)
    /\ UNCHANGED <<nextId, now, mode, req, resp, issued, todos, calls, view, ret, raceVars>>

OtherDelete(id) ==
    /\ FindById(id) # {}
    /\ LET r == DeleteResult(id, "ok") IN
       /\ store' = r.store
       /\ hist' = HistServed(0, r.resp.status, r.store)
    /\ UNCHANGED <<nextId, now, mode, req, resp, issued, todos, calls, view, ret, raceVars>>

ClientNext ==
    \/ \E c \in Calls : getTodosSend(c)
    \/ \E c \in Calls, id \in 1..MaxTodos : toggleTodoStatusSend(c, id)
    \/ \E c \in Calls, db \in DbOutcomes : ServeGetTodos(c, db)
    \/ \E c \in Calls, db \in DbOutcomes : ServeToggle(c, db)
    \/ \E c \in Calls : getTodosReturn(c)
    \/ \E c \in Calls : toggleTodoStatusReturn(c)
    \/ \E body \in OtherCreateBodies : OtherCreate(body)
    \/ \E id \in 1..MaxTodos, body \in OtherUpdateBodies : OtherUpdate(id, body)
    \/ \E id \in 1..MaxTodos : OtherDelete(id)

ClientSpec == Init /\ [][ClientNext]_vars

----------------------------------------------------------------------------
\* UIManager.handleAddTodo: addTodo(task, dueDate), then getTodos()

\* what the user typed into the task input and picked in the date input
AddTexts == {<<" ">>, <<" ", "a">>}

AddDates == {"", "2025-01-10"}

\* handleAddTodo: without a task or a date the page alerts and calls nothing;
\* otherwise addTodo sends the POST of { task, dueDate }
handleAddTodo(c, text, dueDate) ==
    /\ FirstFree(c)
    /\ IF Trim(text) = <<>> \/ dueDate = ""
       THEN UNCHANGED calls
       ELSE calls' = [calls EXCEPT ![c] =
                         [FreeCall EXCEPT !.op = "addTodo", !.pc = "sent",
                                          !.body = [task |-> <<Str(Trim(text))>>,
                                                    dueDate |-> <<dueDate>>,
                                                    status |-> <<>>]]]
    /\ UNCHANGED <<serverVars, todos, view, ret, hist, raceVars>>

\* the server handles the POST of an addTodo call and the response travels back
ServePost(c, db) ==
    /\ calls[c].pc = "sent"
    /\ calls[c].op = "addTodo"
    /\ LET r == CreateResult(calls[c].body, db) IN
       /\ r.saved # <<>> => nextId <= MaxAdds
       /\ Save(r.saved)
       /\ calls' = [calls EXCEPT ![c].pc = "answered", ![c].resp = r.resp]
    /\ UNCHANGED <<now, mode, req, resp, todos, view, ret, hist, raceVars>>

\* (mutant) the record returned is put in front of the cache
Push_Front(list, newTodo) == <<newTodo>> \o list

\* this.todos.push(newTodo)
Push(list, newTodo) == Append(list, newTodo)

\* addTodo: the fetch settled. A response that is ok appends the record to the
\* cache and the handler goes on to getTodos(); otherwise addTodo throws the
\* server's message, or the error of the fetch, and the handler alerts.
addTodoReturn(c) ==
    /\ Settled(c)
    /\ calls[c].op = "addTodo"
    /\ IF calls[c].pc = "rejected"
       THEN /\ ret' = Threw(FetchRejected)
            /\ calls' = [calls EXCEPT ![c] = FreeCall]
            /\ UNCHANGED todos
       ELSE IF ~Ok(calls[c].resp)
       THEN /\ ret' = Threw(calls[c].resp.body.message)
            /\ calls' = [calls EXCEPT ![c] = FreeCall]
            /\ UNCHANGED todos
       ELSE /\ todos' = Push(todos, calls[c].resp.body)
            /\ ret' = Returned(calls[c].resp.body)
            /\ calls' = [calls EXCEPT ![c] = Refresh]
    /\ UNCHANGED <<serverVars, view, hist, raceVars>>

----------------------------------------------------------------------------
\* window.saveEdit and UIManager.handleEditTodo: editTodo(id, task, dueDate),
\* then getTodos()

EditTexts == {<<"b">>}

EditDates == {"2025-01-11"}

\* the table shows a row, with its buttons, for the task
Displayed(id) == \E i \in 1..Len(view) : view[i]._id = id

\* saveEdit: without a task or a date the page alerts and calls nothing;
\* otherwise editTodo sends the PUT of { task, dueDate }
saveEdit(c, id, text, dueDate) ==
    /\ FirstFree(c)
    /\ Displayed(id)
    /\ IF Trim(text) = <<>> \/ dueDate = ""
       THEN UNCHANGED calls
       ELSE calls' = [calls EXCEPT ![c] =
                         [FreeCall EXCEPT !.op = "editTodo", !.pc = "sent", !.id = id,
                                          !.body = [task |-> <<Str(Trim(text))>>,
                                                    dueDate |-> <<dueDate>>,
                                                    status |-> <<>>]]]
    /\ UNCHANGED <<serverVars, todos, view, ret, hist, raceVars>>

\* editTodo: the fetch settled. A response that is ok replaces the cached entry
\* with the id, if any, by the record returned, and the handler goes on to
\* getTodos(); otherwise editTodo throws and the handler alerts.
editTodoReturn(c) ==
    /\ Settled(c)
    /\ calls[c].op = "editTodo"
    /\ IF calls[c].pc = "rejected"
       THEN /\ ret' = Threw(FetchRejected)
            /\ calls' = [calls EXCEPT ![c] = FreeCall]
            /\ UNCHANGED todos
       ELSE IF ~Ok(calls[c].resp)
       THEN /\ ret' = Threw(calls[c].resp.body.message)
            /\ calls' = [calls EXCEPT ![c] = FreeCall]
            /\ UNCHANGED todos
       ELSE /\ todos' = ReplaceCached(todos, calls[c].id, calls[c].resp.body)
            /\ ret' = Returned(calls[c].resp.body)
            /\ calls' = [calls EXCEPT ![c] = Refresh]
    /\ UNCHANGED <<serverVars, view, hist, raceVars>>

----------------------------------------------------------------------------
\* window.deleteTask: deleteTodo(id), then getTodos()

\* deleteTodo sends the DELETE
deleteTask(c, id) ==
    /\ FirstFree(c)
    /\ Displayed(id)
    /\ calls' = [calls EXCEPT ![c] =
                    [FreeCall EXCEPT !.op = "deleteTodo", !.pc = "sent", !.id = id]]
    /\ UNCHANGED <<serverVars, todos, view, ret, hist, raceVars>>

\* the server handles the DELETE of a deleteTodo call and the response travels back
ServeDelete(c, db) ==
    /\ calls[c].pc = "sent"
    /\ calls[c].op = "deleteTodo"
    /\ LET r == DeleteResult(calls[c].id, db) IN
       /\ store' = r.store
       /\ calls' = [calls EXCEPT ![c].pc = "answered", ![c].resp = r.resp]
    /\ UNCHANGED <<nextId, now, mode, req, resp, issued, todos, view, ret, hist, raceVars>>

\* this.todos.filter((todo) => todo._id !== id)
Filter(list, id) ==
    LET Keep(todo) == todo._id # id IN SelectSeq(list, Keep)

\* deleteTodo: the fetch settled. A response that is ok removes the entries with
\* the id from the cache and the handler goes on to getTodos(); otherwise
\* deleteTodo throws and the handler alerts.
deleteTodoReturn(c) ==
    /\ Settled(c)
    /\ calls[c].op = "deleteTodo"
    /\ IF calls[c].pc = "rejected"
       THEN /\ ret' = Threw(FetchRejected)
            /\ calls' = [calls EXCEPT ![c] = FreeCall]
            /\ UNCHANGED todos
       ELSE IF ~Ok(calls[c].resp)
       THEN /\ ret' = Threw("Failed to delete todo")
            /\ calls' = [calls EXCEPT ![c] = FreeCall]
            /\ UNCHANGED todos
       ELSE /\ todos' = Filter(todos, calls[c].id)
            /\ ret' = ReturnedNothing
            /\ calls' = [calls EXCEPT ![c] = Refresh]
    /\ UNCHANGED <<serverVars, view, hist, raceVars>>

----------------------------------------------------------------------------
\* The page: every handler of the browser against the Task Store API

toggleStatus(c, id) == toggleTodoStatusFetch(c, id) /\ UNCHANGED hist

ServeUpdate(c, db) ==
    /\ calls[c].op \in {"toggle", "editTodo"}
    /\ ServePut(c, db)
    /\ UNCHANGED hist

PageNext ==
    \/ \E c \in Calls : getTodosSend(c)
    \/ \E c \in Calls, text \in AddTexts, dueDate \in AddDates : handleAddTodo(c, text, dueDate)
    \/ \E c \in Calls, id \in 1..MaxTodos, text \in EditTexts, dueDate \in EditDates :
          saveEdit(c, id, text, dueDate)
    \/ \E c \in Calls, id \in 1..MaxTodos : toggleStatus(c, id)
    \/ \E c \in Calls, id \in 1..MaxTodos : deleteTask(c, id)
    \/ \E c \in Calls, db \in DbOutcomes : ServeGetTodos(c, db)
    \/ \E c \in Calls, db \in DbOutcomes : ServePost(c, db)
    \/ \E c \in Calls, db \in DbOutcomes : ServeUpdate(c, db)
    \/ \E c \in Calls, db \in DbOutcomes : ServeDelete(c, db)
    \/ \E c \in Calls : TransportFailure(c)
    \/ \E c \in Calls : getTodosReturn(c)
    \/ \E c \in Calls : addTodoReturn(c)
    \/ \E c \in Calls : editTodoReturn(c)
    \/ \E c \in Calls : toggleTodoStatusReturn(c)
    \/ \E c \in Calls : deleteTodoReturn(c)

PageSpec == Init /\ [][PageNext]_vars

----------------------------------------------------------------------------
\* Two other clients whose Updates of one task race

\* the bodies the two clients send
RaceBodies ==
    { [task |-> <<Str(<<"a">>)>>, dueDate |-> <<>>, status |-> <<>>],
      [task |-> <<Str(<<" ", "b", " ">>)>>, dueDate |-> <<>>, status |-> <<"completed">>],
      [task |-> <<Str(<<"a">>)>>, dueDate |-> <<"2025-01-11">>, status |-> <<>>],
      [task |-> <<>>, dueDate |-> <<"2025-01-10">>, status |-> <<"pending">>],
      [task |-> <<>>, dueDate |-> <<>>, status |-> <<"archived">>] }

InFlight == { k \in Clients : wire[k] # <<>> }

\* a client sends PUT /todos/:id
RaceSend(k, id, body) ==
    /\ wire[k] = <<>>
    /\ Len(writes.applied) + Cardinality(InFlight) < MaxWrites
    /\ wire' = [wire EXCEPT ![k] = <<[id |-> id, body |-> body]>>]
    /\ UNCHANGED <<serverVars, clientVars, writes>>

\* history: the store applied the data to the document doc, which was its
\* first Update or one more of the same document
Applied(doc, data) ==
    IF writes.base = <<>>
    THEN [base |-> <<doc>>, applied |-> <<data>>, raced |-> Cardinality(InFlight) = 2]
    ELSE IF writes.base[1]._id = doc._id
    THEN [writes EXCEPT !.applied = Append(@, data)]
    ELSE writes

\* the request of a client arrives once the response before it was sent: the
\* handler runs and findByIdAndUpdate writes the document in one step
RaceArrive(k, db) ==
    /\ Idle
    /\ wire[k] # <<>>
    /\ LET id == wire[k][1].id
           body == wire[k][1].body
           r == UpdateResult(id, body, db)
       IN  /\ store' = r.store
           /\ writes' = IF r.resp.status = 200
                        THEN Applied(CHOOSE d \in FindById(id) : TRUE, UpdateData(body))
                        ELSE writes
    /\ wire' = [wire EXCEPT ![k] = <<>>]
    /\ UNCHANGED <<nextId, now, mode, req, resp, issued, clientVars>>

RaceNext ==
    \/ \E body \in OtherCreateBodies : OtherCreate(body)
    \/ \E k \in Clients, id \in 1..MaxTodos, body \in RaceBodies : RaceSend(k, id, body)
    \/ \E k \in Clients, db \in DbOutcomes : RaceArrive(k, db)
    \/ \E db \in DbOutcomes : List(db)
    \/ Done

RaceSpec == Init /\ [][RaceNext]_vars


----------------------------------------------------------------------------
\* Properties of the Task Store API

StorageFailure(r) == r.status = 500 /\ r.body.error = "MongoNetworkError"

\* the task and the day a create or update body asks for
BodyTask(body) == Trim(Val(body, "task").chars)

BodyDay(body) == ParseDate(Val(body, "dueDate")).day

Created == req.op = "create" /\ resp.status = 201

\* C1 (as amended): after a Create answered 201, every sequence List can return
\* holds exactly one record with the id the Create returned; that record is the
\* one returned, with the trimmed task, the parsed dueDate and status pending,
\* whatever status the body carried.
C1_CreateThenList ==
    Created =>
        \A list \in FindSorted(store) :
            LET hits == { i \in 1..Len(list) : list[i]._id = resp.body._id } IN
            /\ Cardinality(hits) = 1
            /\ \A i \in hits :
                /\ list[i] = resp.body
                /\ list[i].task = BodyTask(req.body)
                /\ list[i].dueDate = BodyDay(req.body)
                /\ list[i].status = "pending"

\* a Create whose body carries status completed succeeded beside another record
C1_Witness ==
    /\ Created
    /\ req.body.status = <<"completed">>
    /\ Cardinality(store) = 2

\* C1 as claimed: the sequence List returns holds exactly one record matching
\* the input (task, dueDate), and it is pending.
C1_Original ==
    Created =>
        \A list \in FindSorted(store) :
            LET hits == { i \in 1..Len(list) :
                            /\ list[i].task = BodyTask(req.body)
                            /\ list[i].dueDate = BodyDay(req.body) } IN
            /\ Cardinality(hits) = 1
            /\ \A i \in hits : list[i].status = "pending"

\* C2: a Create whose task is the empty string or whose dueDate is missing is
\* answered 400 with the field-level details, and the collection is unchanged.
EmptyTask(body) == Has(body, "task") /\ Val(body, "task") = Str(<<>>)

MissingDueDate(body) == ~Has(body, "dueDate")

C2_CreateMissingFields ==
    [][ (req'.op = "create" /\ (EmptyTask(req'.body) \/ MissingDueDate(req'.body)))
        => /\ resp'.status = 400
           /\ EmptyTask(req'.body) => resp'.body.details.task
           /\ MissingDueDate(req'.body) => resp'.body.details.dueDate
           /\ store' = store
           /\ issued' = issued ]_vars

\* an empty task with a valid dueDate was refused while a record is stored
C2_Witness ==
    /\ req.op = "create"
    /\ EmptyTask(req.body)
    /\ req.body.dueDate = <<"2025-01-10">>
    /\ resp.status = 400
    /\ store # {}

\* C3 as claimed: a Create whose task is empty after trimming or whose dueDate
\* does not parse is answered 400, and nothing is persisted.
BlankTask(body) ==
    /\ Has(body, "task")
    /\ Val(body, "task").type = "string"
    /\ Trim(Val(body, "task").chars) = <<>>

UnparsableDueDate(body) ==
    Has(body, "dueDate") /\ ~ParseDate(Val(body, "dueDate")).valid

C3_MalformedCreate ==
    [][ (req'.op = "create" /\ (BlankTask(req'.body) \/ UnparsableDueDate(req'.body)))
        => (resp'.status = 400 /\ store' = store) ]_vars

\* the task and dueDate of an update body are values the handler and the schema
\* accept: each is absent, or a string that is not blank, or a date that parses
AcceptedFields(body) ==
    /\ Has(body, "task") =>
          (Val(body, "task").type = "string" /\ ~BlankTask(body))
    /\ ~UnparsableDueDate(body)

UnsupportedStatus(body) ==
    Has(body, "status") /\ Val(body, "status") \notin StatusEnum

MalformedId(id) == id \notin ObjectIdFormat

NoSuchTodo(id) == id \in ObjectIdFormat /\ FindById(id) = {}

\* C4 as claimed, the store being reachable and the body's task and dueDate
\* being accepted values: an Update or Delete with an id that is not in ObjectId
\* format is answered 400, and with a well-formed id of no stored task 404.
C4_Original ==
    [][ (req'.op \in {"update", "delete"} /\ ~StorageFailure(resp')
            /\ AcceptedFields(req'.body))
        => /\ MalformedId(req'.id) => resp'.status = 400
           /\ NoSuchTodo(req'.id) => resp'.status = 404 ]_vars

\* C4 (as amended): an id that is not in ObjectId format is answered 400 for
\* every body. With a well-formed id of no stored task and the store reachable,
\* Delete is answered 404; Update is answered 400 when the body's status is
\* unsupported (and its task, if any, is a string), 404 when the body's fields
\* are all accepted values, and never 200; the collection is unchanged.
C4_InvalidOrUnknownId ==
    [][ (req'.op \in {"update", "delete"})
        => /\ MalformedId(req'.id) => (resp'.status = 400 /\ store' = store)
           /\ (NoSuchTodo(req'.id) /\ ~StorageFailure(resp'))
              => /\ resp'.status # 200
                 /\ store' = store
                 /\ req'.op = "delete" => resp'.status = 404
                 /\ (req'.op = "update" /\ AcceptedFields(req'.body))
                    => resp'.status = (IF UnsupportedStatus(req'.body) THEN 400 ELSE 404)
       ]_vars

\* an Update naming a well-formed id of a deleted task was answered 404, and
\* one with a malformed id 400, another task being stored
C4_Witness ==
    /\ req.op = "update"
    /\ req.id \in { issued[i] : i \in 1..Len(issued) }
    /\ NoSuchTodo(req.id)
    /\ req.body.status = <<"completed">>
    /\ resp.status = 404
    /\ store # {}

\* C5 as claimed: an Update whose status is neither pending nor completed is
\* answered 400 and changes nothing, whatever else the body carries.
C5_UnsupportedStatus ==
    [][ (req'.op = "update" /\ UnsupportedStatus(req'.body))
        => (resp'.status = 400 /\ store' = store) ]_vars

\* C6: an Update answered 200 changes, in the one record with the id, the fields
\* among task, dueDate and status that the body carries, to the body's values;
\* the others keep their values, as do the id, the creation time and every
\* other record; the response is the record as stored.
C6_PartialUpdate ==
    [][ (req'.op = "update" /\ resp'.status = 200)
        => \E old \in store :
              LET new == resp'.body
                  body == req'.body
              IN  /\ old._id = req'.id
                  /\ new._id = old._id
                  /\ new.createdAt = old.createdAt
                  /\ new.task = (IF Has(body, "task") THEN BodyTask(body) ELSE old.task)
                  /\ new.dueDate =
                        (IF Has(body, "dueDate") THEN BodyDay(body) ELSE old.dueDate)
                  /\ new.status =
                        (IF Has(body, "status") THEN Val(body, "status") ELSE old.status)
                  /\ new \in store'
                  /\ store' \ {new} = store \ {old}
                  /\ Cardinality(store') = Cardinality(store) ]_vars

\* an Update carrying only a task changed a completed record beside another one
C6_Witness ==
    /\ req.op = "update"
    /\ resp.status = 200
    /\ req.body.task # <<>>
    /\ req.body.dueDate = <<>>
    /\ req.body.status = <<>>
    /\ resp.body.status = "completed"
    /\ resp.body.dueDate = 11
    /\ Cardinality(store) = 2

Listed == req.op = "list" /\ resp.status = 200

\* a was saved after b
CreatedLater(a, b) ==
    \E i, j \in 1..Len(issued) : issued[i] = a._id /\ issued[j] = b._id /\ i > j

\* the sequence holds every stored task exactly once, by ascending dueDate
ListsStore(list) ==
    /\ Len(list) = Cardinality(store)
    /\ { list[i] : i \in 1..Len(list) } = store
    /\ \A i, j \in 1..Len(list) : i < j => list[i].dueDate <= list[j].dueDate

\* C7 as claimed: List returns every stored task once, by ascending dueDate, and
\* of two tasks with the same dueDate the one created later comes first.
C7_Original ==
    Listed =>
        /\ ListsStore(resp.body)
        /\ \A i, j \in 1..Len(resp.body) :
              (resp.body[i].dueDate = resp.body[j].dueDate
                 /\ CreatedLater(resp.body[i], resp.body[j])) => i < j

\* C7 (as amended): List returns every stored task once, by ascending dueDate,
\* and of two tasks with the same dueDate the one with the later createdAt
\* comes first (two tasks saved at the same clock value come in either order).
C7_ListSorted ==
    Listed =>
        /\ ListsStore(resp.body)
        /\ \A i, j \in 1..Len(resp.body) :
              (resp.body[i].dueDate = resp.body[j].dueDate
                 /\ resp.body[i].createdAt > resp.body[j].createdAt) => i < j

\* List returned two tasks of one dueDate, the later created first, when the
\* earlier one has the lower id
C7_Witness ==
    /\ Listed
    /\ Len(resp.body) = 2
    /\ resp.body[1].dueDate = resp.body[2].dueDate
    /\ resp.body[1].createdAt > resp.body[2].createdAt
    /\ resp.body[1]._id > resp.body[2]._id

IssuedIds == { issued[i] : i \in 1..Len(issued) }

StoredIds == { d._id : d \in store }

\* C8: a Delete answered 200 removes the record with the id and no other, and
\* returns it as it was stored; an id that was deleted is never stored again, so
\* no later List holds it, and a Delete of it is answered 404 when the store is
\* reachable.
C8_Delete ==
    [][ /\ (req'.op = "delete" /\ resp'.status = 200)
           => \E old \in store :
                 /\ old._id = req'.id
                 /\ resp'.body.deletedTodo = old
                 /\ store' = store \ {old}
                 /\ req'.id \notin { d._id : d \in store' }
        /\ \A id \in IssuedIds \ StoredIds :
              /\ id \notin { d._id : d \in store' }
              /\ (req'.op = "list" /\ resp'.status = 200)
                    => \A i \in 1..Len(resp'.body) : resp'.body[i]._id # id
              /\ (req'.op = "delete" /\ req'.id = id /\ ~StorageFailure(resp'))
                    => resp'.status = 404 ]_vars

\* the Delete of one of two records succeeded
C8_Witness ==
    /\ req.op = "delete"
    /\ resp.status = 200
    /\ Cardinality(store) = 1
    /\ resp.body.deletedTodo.status = "completed"

\* a Delete of an id that was deleted before was answered 404
C8_WitnessRepeated ==
    /\ req.op = "delete"
    /\ req.id \in IssuedIds \ StoredIds
    /\ resp.status = 404

\* C9: every stored record has a task that is not empty after trimming and a
\* status that is pending or completed, and no two records ever saved, the
\* deleted ones included, have the same id.
C9_StoreInvariant ==
    /\ \A d \in store : Trim(d.task) # <<>> /\ d.status \in {"pending", "completed"}
    /\ \A d, e \in store : d._id = e._id => d = e
    /\ \A i, j \in 1..Len(issued) : issued[i] = issued[j] => i = j
    /\ StoredIds \subseteq IssuedIds

\* a record was saved after another one was deleted, and one was updated
C9_Witness ==
    /\ Len(issued) = 2
    /\ Cardinality(store) = 1
    /\ \E d \in store : d._id = issued[2] /\ d.status = "completed" /\ d.task = <<"b">>

----------------------------------------------------------------------------
\* Properties of the TodoManager

TwoToggles == hist.served = 2

\* C10 as claimed: once two toggles of a task are applied, its stored status is
\* the one it had before the first, however the calls and other clients'
\* requests interleave.
C10_Original == TwoToggles => hist.final = hist.status0

\* C10 (as amended): two toggles of a task return its stored status to the value
\* it had before the first when the cached status agrees with the stored one as
\* each is sent, the second is sent after the first one's response was
\* processed, both Updates are answered 200, and no other request changes the
\* task's status in between.
C10_ToggleTwice == (TwoToggles /\ hist.clean) => hist.final = hist.status0

\* two clean toggles of a task that was completed were applied
C10_Witness ==
    /\ TwoToggles
    /\ hist.clean
    /\ hist.status0 = "completed"
    /\ hist.final = "completed"

----------------------------------------------------------------------------
\* Properties of the TodoManager

InCache(id) == \E i \in 1..Len(todos) : todos[i]._id = id

\* the first cached entry of the task
CachedEntry(id) == todos[FindIndex(todos, id)]

\* the fetch of the call got a response and the response is ok
Succeeded(c) == calls[c].pc = "answered" /\ Ok(calls[c].resp)

\* the PUT that toggleTodoStatus(id) sends when the cached status is cached
TogglePut(call, id, cached) ==
    /\ call.op = "toggle"
    /\ call.pc = "sent"
    /\ call.id = id
    /\ call.body.task = <<>>
    /\ call.body.dueDate = <<>>
    /\ call.body.status # <<>>
    /\ call.body.status[1] \in StatusEnum \ {cached}

\* C11: toggleStatus(id) for an id without an entry in the cache throws a
\* not-found error, sends no request and leaves cache and store alone; for a
\* cached id it sends exactly one PUT, whose body is {status: flipped}, flipped
\* being the opposite of the cached entry's status.
C11_ToggleLookup ==
    [][\A c \in Calls, id \in 1..MaxTodos :
          toggleStatus(c, id) =>
             IF InCache(id)
             THEN /\ TogglePut(calls'[c], id, CachedEntry(id).status)
                  /\ \A b \in Calls \ {c} : calls'[b] = calls[b]
                  /\ todos' = todos
                  /\ store' = store
             ELSE /\ ret'.thrown = "Todo not found"
                  /\ calls' = calls
                  /\ todos' = todos
                  /\ store' = store]_vars

\* a toggle of a task that is not cached threw, and the toggle of the cached
\* task is in flight
C11_Witness ==
    /\ ret.thrown = "Todo not found"
    /\ store # {}
    /\ \E c \in Calls : /\ InCache(calls[c].id)
                        /\ TogglePut(calls[c], calls[c].id, CachedEntry(calls[c].id).status)

\* C12: when addTodo ends with a success response the returned record is
\* appended at the end of the cache, the entries before it unchanged and in
\* order, and the record is returned; when the transport fails or the response
\* is not a success addTodo throws and the cache is as it was.
C12_AddTodo ==
    [][\A c \in Calls :
          addTodoReturn(c) =>
             IF Succeeded(c)
             THEN /\ Len(todos') = Len(todos) + 1
                  /\ todos'[Len(todos')] = calls[c].resp.body
                  /\ \A i \in 1..Len(todos) : todos'[i] = todos[i]
                  /\ ret' = [thrown |-> "", value |-> <<calls[c].resp.body>>]
             ELSE /\ todos' = todos
                  /\ ret'.thrown # ""
                  /\ ret'.value = <<>>]_vars

\* an addTodo returned its record, which is the last of two cache entries, and
\* another threw
C12_Witness ==
    /\ Len(todos) = 2
    /\ ret.value = <<todos[2]>>
    /\ todos[1] # todos[2]

\* C13: when getTodos ends with a success response the cache is replaced by the
\* list and the list is returned; when the server answers with a non-success
\* status the error thrown carries the server's message, which tells it from the
\* error of a transport failure; in both failure cases the cache is as it was.
C13_Refresh ==
    [][\A c \in Calls :
          getTodosReturn(c) =>
             IF Succeeded(c)
             THEN /\ todos' = calls[c].resp.body
                  /\ ret' = [thrown |-> "", value |-> <<calls[c].resp.body>>]
             ELSE /\ todos' = todos
                  /\ ret'.value = <<>>
                  /\ IF calls[c].pc = "rejected"
                     THEN ret'.thrown # ""
                     ELSE ret'.thrown = calls[c].resp.body.message]_vars

----------------------------------------------------------------------------
\* C14: error detail in 500 responses

\* error.message of the errors the handlers and the middleware catch
InternalErrors ==
    {"MongoNetworkError", "TypeError", "CastError", "ValidationError", "SyntaxError"}

\* the body tells the client the message of the error that was caught
ExposesDetail(body) ==
    \/ "error" \in DOMAIN body
    \/ body.message \in InternalErrors

Handled == req.op \in {"list", "create", "update", "delete"}

\* C14: a List, Create, Update or Delete request answered 500 while NODE_ENV is
\* not development gets a body that does not expose the message of the
\* underlying error.
C14_ErrorDetailHidden ==
    (Handled /\ resp.status = 500 /\ mode # "development") => ~ExposesDetail(resp.body)

----------------------------------------------------------------------------
\* C15: every request is answered

ResponseStatuses == {200, 201, 400, 404, 500}

\* a success carries the JSON of the documents, any other response a message
Structured(r) == r.status \in {200, 201} \/ "message" \in DOMAIN r.body

----------------------------------------------------------------------------
\* C16: racing Updates of one task

\* the Updates applied that supplied the field
Supplying(f) == { n \in 1..Len(writes.applied) : writes.applied[n][f] # <<>> }

Last(S) == CHOOSE n \in S : \A m \in S : m <= n

\* the value the field has after the Updates applied so far: the value of the
\* last one that supplied it, or the value before the first Update
Expected(f) ==
    IF Supplying(f) = {}
    THEN writes.base[1][f]
    ELSE IF f = "dueDate" THEN writes.applied[Last(Supplying(f))][f][1].day
    ELSE writes.applied[Last(Supplying(f))][f][1]

AsExpected(doc) ==
    /\ doc.task = Expected("task")
    /\ doc.dueDate = Expected("dueDate")
    /\ doc.status = Expected("status")
    /\ doc.createdAt = writes.base[1].createdAt

\* C16: when Updates of one task race, each is applied whole and in arrival
\* order: in the store, and in every list a List returns, each field of the
\* task has the value of the last Update applied that supplied it, and a field
\* no Update supplied has the value it had before.
C16_LastWriteWins ==
    writes.base # <<>> =>
        /\ \A d \in store : d._id = writes.base[1]._id => AsExpected(d)
        /\ (req.op = "list" /\ resp.status = 200) =>
              \A i \in 1..Len(resp.body) :
                 resp.body[i]._id = writes.base[1]._id => AsExpected(resp.body[i])

\* two Updates that were in flight together were applied: both supplied the
\* task, with different values, and only the first supplied the status; a List
\* returned the document with the task of the second and the status of the first
C16_Witness ==
    /\ writes.raced
    /\ Len(writes.applied) = 2
    /\ writes.applied[1].task # <<>>
    /\ writes.applied[2].task # <<>>
    /\ writes.applied[1].task # writes.applied[2].task
    /\ writes.applied[1].status = <<"completed">>
    /\ writes.applied[2].status = <<>>
    /\ req.op = "list"
    /\ resp.status = 200
    /\ Len(resp.body) = 1
    /\ resp.body[1].task = writes.applied[2].task[1]
    /\ resp.body[1].status = "completed"

----------------------------------------------------------------------------
\* C17-C19: the cache and the table of the page

MutatingOps == {"addTodo", "editTodo", "toggle", "deleteTodo"}

\* the call in the slot ended in this step
Ended(c) == Settled(c) /\ calls'[c].pc \in {"free", "sent"}

\* C17: when the mutating call of a handler ends in success the handler sends
\* the refresh, GET /todos, and has not redrawn the table; the store answers a
\* refresh with its sorted list; when the refresh ends in success the cache is
\* the list of the response and the table is drawn from it; the table is drawn
\* at no other time.
C17_RefreshAfterMutation ==
    [][/\ \A c \in Calls :
             (calls[c].op \in MutatingOps /\ Succeeded(c) /\ Ended(c)) =>
                 /\ calls'[c].op = "getTodos"
                 /\ calls'[c].pc = "sent"
                 /\ view' = view
       /\ \A c \in Calls :
             (calls[c].op = "getTodos" /\ calls[c].pc = "sent"
                 /\ calls'[c].pc = "answered" /\ Ok(calls'[c].resp)) =>
                 calls'[c].resp.body \in FindSorted(store)
       /\ \A c \in Calls :
             (calls[c].op = "getTodos" /\ Succeeded(c) /\ Ended(c)) =>
                 /\ todos' = calls[c].resp.body
                 /\ view' = calls[c].resp.body
       /\ view' # view =>
             \E c \in Calls : calls[c].op = "getTodos" /\ Succeeded(c) /\ Ended(c)]_vars

\* the refresh after an edit drew the edited task, and cache and table agree
\* with the store
C17_Witness ==
    /\ Len(view) = 1
    /\ view[1].task = <<"b">>
    /\ view = todos
    /\ view \in FindSorted(store)
    /\ \A c \in Calls : calls[c].pc = "free"

\* the entries of list whose id is not id, in order
Without(list, id) ==
    LET Other(todo) == todo._id # id IN SelectSeq(list, Other)

C19_NoDuplicates ==
    \A i, j \in 1..Len(todos) : i # j => todos[i]._id # todos[j]._id

----------------------------------------------------------------------------
\* C20: a request that fails leaves the collection alone

\* C20: the collection changes only in a Create, Update or Delete request that
\* is answered 200 or 201; a request answered 400, 404 or 500, and every List,
\* leaves it exactly as it was.
C20_FailureLeavesStore ==
    [][store' # store =>
          (req'.op \in {"create", "update", "delete"} /\ resp'.status \in {200, 201})]_vars

\* a Delete failed on the store while a document was stored
C20_Witness ==
    /\ req.op = "delete"
    /\ resp.status = 500
    /\ store # {}
====
